---------------------------- MODULE Spec2Model ----------------------------
(***************************************************************************)
(* Model of the Gemini Anomaly Detector single-page application:           *)
(*   src/App.tsx                   the App component (state, handlers,     *)
(*                                 render)                                 *)
(*   src/services/geminiService.ts cleanJsonString and analyzeAnomalies    *)
(*   src/unnamed/part_001          FileUpload (the only caller of          *)
(*                                 handleFileSelect)                       *)
(*   src/types.ts                  Transaction, Anomaly, AnalysisResult,   *)
(*                                 LoadingState                            *)
(*                                                                         *)
(* A JavaScript string is a sequence of one-character strings, so that     *)
(* startsWith, endsWith, includes, replace, trim, parseFloat and           *)
(* JSON.parse are computed on the characters.                              *)
(***************************************************************************)
EXTENDS Integers, Sequences, FiniteSets, TLC

(***************************************************************************)
(* Bounds of the model.                                                    *)
(***************************************************************************)
\* longest raw amount field enumerated character by character
MaxAmountLen == 2
\* most filler rows on each side of the probed row of a normalizer input
MaxFill == 1
\* most data rows of a CSV file selected in the application
MaxRows == 2
\* how many records beyond the sample cap the longest sampled list has
MaxOver == 2

(***************************************************************************)
(* JavaScript strings.                                                     *)
(***************************************************************************)
Digits == {"0", "1", "2", "3", "4", "5", "6", "7", "8", "9"}

DigitVal(c) ==
  CASE c = "0" -> 0 [] c = "1" -> 1 [] c = "2" -> 2 [] c = "3" -> 3
    [] c = "4" -> 4 [] c = "5" -> 5 [] c = "6" -> 6 [] c = "7" -> 7
    [] c = "8" -> 8 [] c = "9" -> 9

\* the characters matched by \s and removed by String.prototype.trim
WhiteSpace == {" ", "\n", "\t", "\r"}

\* s.slice(n): s without its first n characters
Drop(s, n) == IF n >= Len(s) THEN <<>> ELSE SubSeq(s, n + 1, Len(s))

\* s.slice(0, n)
Take(s, n) == IF n >= Len(s) THEN s ELSE SubSeq(s, 1, n)

StartsWith(s, p) == Len(p) <= Len(s) /\ SubSeq(s, 1, Len(p)) = p

EndsWith(s, p) ==
  Len(p) <= Len(s) /\ SubSeq(s, Len(s) - Len(p) + 1, Len(s)) = p

\* s.includes(p)
Includes(s, p) ==
  \E i \in 0..(Len(s) - Len(p)) : SubSeq(s, i + 1, i + Len(p)) = p

\* number of leading characters of s that belong to set cs
RECURSIVE LeadCount(_, _)
LeadCount(s, cs) ==
  IF s # <<>> /\ Head(s) \in cs THEN 1 + LeadCount(Tail(s), cs) ELSE 0

\* number of trailing characters of s that belong to set cs
RECURSIVE TrailCount(_, _)
TrailCount(s, cs) ==
  IF s # <<>> /\ s[Len(s)] \in cs
  THEN 1 + TrailCount(SubSeq(s, 1, Len(s) - 1), cs)
  ELSE 0

TrimStart(s) == Drop(s, LeadCount(s, WhiteSpace))

TrimEnd(s) == Take(s, Len(s) - TrailCount(s, WhiteSpace))

\* s.trim()
Trim(s) == TrimEnd(TrimStart(s))

\* s.replace(/,/g, ''), for any single character c
RECURSIVE RemoveChar(_, _)
RemoveChar(s, c) ==
  IF s = <<>> THEN <<>>
  ELSE IF Head(s) = c THEN RemoveChar(Tail(s), c)
  ELSE <<Head(s)>> \o RemoveChar(Tail(s), c)

\* the decimal value of a sequence of digits (0 for the empty sequence)
RECURSIVE DigitsVal(_)
DigitsVal(ds) ==
  IF ds = <<>> THEN 0
  ELSE 10 * DigitsVal(SubSeq(ds, 1, Len(ds) - 1)) + DigitVal(ds[Len(ds)])

\* all character sequences over alphabet cs of length at most n
RECURSIVE StringsUpTo(_, _)
StringsUpTo(cs, n) ==
  IF n = 0 THEN {<<>>}
  ELSE LET shorter == StringsUpTo(cs, n - 1)
       IN  shorter \cup {s \o <<c>> : s \in shorter, c \in cs}

(***************************************************************************)
(* JavaScript numbers as parseFloat yields them: NaN, +-Infinity, or the   *)
(* finite decimal (-1)^neg * mant * 10^exp, kept normalised (mant has no   *)
(* trailing zero unless it is 0, and then exp is 0).                       *)
(***************************************************************************)
NaN == [kind |-> "NaN", neg |-> FALSE, mant |-> 0, exp |-> 0]

Infinity(neg) == [kind |-> "Infinity", neg |-> neg, mant |-> 0, exp |-> 0]

RECURSIVE Finite(_, _, _)
Finite(neg, mant, exp) ==
  IF mant = 0 THEN [kind |-> "finite", neg |-> neg, mant |-> 0, exp |-> 0]
  ELSE IF mant % 10 = 0 /\ exp < 0 THEN Finite(neg, mant \div 10, exp + 1)
  ELSE [kind |-> "finite", neg |-> neg, mant |-> mant, exp |-> exp]

\* the global isNaN on a number
isNaN(x) == x.kind = "NaN"

S_Infinity == <<"I", "n", "f", "i", "n", "i", "t", "y">>

\* parseFloat(s): leading white space is skipped, then the longest prefix
\* that is a StrDecimalLiteral is converted; NaN when there is none.  The
\* exponent part is not modelled: no input of the model holds an "e".
parseFloat(s) ==
  LET t    == TrimStart(s)
      sign == IF t # <<>> /\ Head(t) \in {"+", "-"} THEN 1 ELSE 0
      neg  == t # <<>> /\ Head(t) = "-"
      u    == Drop(t, sign)
      ni   == LeadCount(u, Digits)
      ip   == Take(u, ni)
      v    == Drop(u, ni)
      dot  == v # <<>> /\ Head(v) = "."
      nf   == IF dot THEN LeadCount(Tail(v), Digits) ELSE 0
      fp   == IF dot THEN Take(Tail(v), nf) ELSE <<>>
  IN  IF StartsWith(u, S_Infinity) THEN Infinity(neg)
      ELSE IF ni = 0 /\ nf = 0 THEN NaN
      ELSE Finite(neg, DigitsVal(ip \o fp), 0 - nf)


(***************************************************************************)
(* Rows of the parsed CSV.  With header: true Papa Parse yields one object *)
(* per data row; a field is a string, or undefined when the row (or the    *)
(* header) has no such column.                                             *)
(***************************************************************************)
Str(s) == [def |-> TRUE, s |-> s]

Undefined == [def |-> FALSE, s |-> <<>>]

\* JavaScript truthiness of a field: undefined and '' are falsy
Truthy(f) == f.def /\ f.s # <<>>

Row(ba, monthly, actCode, amount) ==
  [BA |-> ba, monthly |-> monthly, actCode |-> actCode, amount |-> amount]

(***************************************************************************)
(* handleFileSelect, the complete callback: rows to Transaction records.   *)
(***************************************************************************)
\* a variant without the default for an empty or missing amount
AmountStrNoDefault(row) == RemoveChar(row.amount.s, ",")

\* const amountStr = row['amount']
\*   ? row['amount'].toString().replace(/,/g, '') : '0'
AmountStr(row) ==
  IF Truthy(row.amount) THEN RemoveChar(row.amount.s, ",") ELSE <<"0">>

\* the callback of results.data.map: null (the empty sequence here) for a
\* row whose amount is NaN, else the one record built from the row
MapRow(row, index) ==
  LET amount == parseFloat(AmountStr(row))
  IN  IF isNaN(amount) THEN <<>>
      ELSE << [id                |-> index,
               BA                |-> row.BA,
               monthly           |-> row.monthly,
               actCode           |-> row.actCode,
               amount            |-> amount,
               originalAmountStr |-> row.amount] >>

\* results.data.map(...).filter(t => t !== null), from row number from on
RECURSIVE MapFilter(_, _)
MapFilter(rows, from) ==
  IF from > Len(rows) THEN <<>>
  ELSE MapRow(rows[from], from - 1) \o MapFilter(rows, from + 1)

\* a variant that numbers the records after the filter
RECURSIVE Renumber(_, _)
Renumber(txs, k) ==
  IF txs = <<>> THEN <<>>
  ELSE <<[Head(txs) EXCEPT !.id = k]>> \o Renumber(Tail(txs), k + 1)

ParsedDataDense(rows) == Renumber(MapFilter(rows, 1), 0)

ParsedData(rows) == MapFilter(rows, 1)


(***************************************************************************)
(* parsedData.sort((a, b) => a.monthly.localeCompare(b.monthly))           *)
(***************************************************************************)
S_undefined ==
  <<"u", "n", "d", "e", "f", "i", "n", "e", "d">>

\* collation rank of a character: digits in order, letters after them
CharRank(c) == IF c \in Digits THEN DigitVal(c) ELSE 10

\* a.localeCompare(b) as -1, 0 or 1, on strings of digits and letters
RECURSIVE LocaleCompare(_, _)
LocaleCompare(a, b) ==
  IF a = <<>> THEN (IF b = <<>> THEN 0 ELSE -1)
  ELSE IF b = <<>> THEN 1
  ELSE IF CharRank(Head(a)) < CharRank(Head(b)) THEN -1
  ELSE IF CharRank(Head(a)) > CharRank(Head(b)) THEN 1
  ELSE LocaleCompare(Tail(a), Tail(b))

\* the argument of localeCompare is converted to a string: undefined
\* becomes 'undefined'
MonthlyKey(t) == IF t.monthly.def THEN t.monthly.s ELSE S_undefined

\* x put into the sorted sequence after every element that is not greater
RECURSIVE InsertSorted(_, _)
InsertSorted(sorted, x) ==
  IF sorted = <<>> THEN <<x>>
  ELSE IF LocaleCompare(MonthlyKey(Head(sorted)), MonthlyKey(x)) <= 0
  THEN <<Head(sorted)>> \o InsertSorted(Tail(sorted), x)
  ELSE <<x>> \o sorted

\* Array.prototype.sort is stable
RECURSIVE StableSort(_)
StableSort(txs) ==
  IF txs = <<>> THEN <<>>
  ELSE InsertSorted(StableSort(SubSeq(txs, 1, Len(txs) - 1)), txs[Len(txs)])

S_TypeError ==
  <<"C", "a", "n", "n", "o", "t", " ", "r", "e", "a", "d", " ", "p", "r",
    "o", "p", "e", "r", "t", "i", "e", "s", " ", "o", "f", " ", "u", "n",
    "d", "e", "f", "i", "n", "e", "d", " ", "(", "r", "e", "a", "d", "i",
    "n", "g", " ", "'", "l", "o", "c", "a", "l", "e", "C", "o", "m", "p",
    "a", "r", "e", "'", ")">>

\* The outcomes of the sort.  The comparator throws a TypeError when it is
\* called with a record whose monthly is undefined as its first argument.
\* Which element the engine passes first is not specified: with one such
\* record among several the sort either throws or finishes (the record
\* only ever was the second argument); two such records are compared with
\* each other, so the sort throws; fewer than two records are not compared.
SortOutcomes(txs) ==
  LET undef   == Cardinality({i \in DOMAIN txs : ~txs[i].monthly.def})
      sorted  == [threw |-> FALSE, data |-> StableSort(txs), message |-> <<>>]
      thrown  == [threw |-> TRUE, data |-> <<>>, message |-> S_TypeError]
  IN  IF Len(txs) < 2 \/ undef = 0 THEN {sorted}
      ELSE IF undef >= 2 THEN {thrown}
      ELSE {sorted, thrown}

(***************************************************************************)
(* analyzeAnomalies: the outbound sample.                                  *)
(***************************************************************************)
\* data.slice(0, 500)
SampleCap == 500

Project(t) ==
  [id |-> t.id, actCode |-> t.actCode, monthly |-> t.monthly,
   amount |-> t.amount]

\* a variant that cuts one record later
SampleDataOffByOne(data) ==
  [i \in 1..Len(Take(data, SampleCap + 1)) |-> Project(data[i])]

\* const sampleData = data.slice(0, 500).map(t => ({id, actCode, monthly, amount}))
SampleData(data) ==
  [i \in 1..Len(Take(data, SampleCap)) |-> Project(data[i])]

(***************************************************************************)
(* cleanJsonString                                                         *)
(***************************************************************************)
\* the backtick character, named by its code point (a TLA+ string cannot
\* hold it)
Backtick == "U+0060"

S_Fence == <<Backtick, Backtick, Backtick>>

S_FenceJson == S_Fence \o <<"j", "s", "o", "n">>

\* clean.replace(/^```json\s*/, '') or clean.replace(/^```\s*/, ''): the
\* opening of n characters and the white space after it
RemoveOpening(clean, n) == TrimStart(Drop(clean, n))

\* clean.replace(/\s*```$/, '')
RemoveClosing(clean) == TrimEnd(Take(clean, Len(clean) - Len(S_Fence)))

\* a variant that knows the bare opening fence only
cleanJsonStringNoTag(text) ==
  LET clean0 == Trim(text)
      clean1 == IF StartsWith(clean0, S_Fence)
                THEN RemoveOpening(clean0, Len(S_Fence))
                ELSE clean0
  IN  IF EndsWith(clean1, S_Fence) THEN RemoveClosing(clean1) ELSE clean1

cleanJsonString(text) ==
  LET clean0 == Trim(text)
      clean1 == IF StartsWith(clean0, S_FenceJson)
                THEN RemoveOpening(clean0, Len(S_FenceJson))
                ELSE IF StartsWith(clean0, S_Fence)
                THEN RemoveOpening(clean0, Len(S_Fence))
                ELSE clean0
  IN  IF EndsWith(clean1, S_Fence) THEN RemoveClosing(clean1) ELSE clean1


(***************************************************************************)
(* JSON values.  Every value is a record of the same shape, tagged by t:   *)
(* n is the value of a number, s the characters of a string, e the         *)
(* elements of an array or the member values of an object, k the member    *)
(* names of an object (k[i] names e[i]).                                   *)
(***************************************************************************)
JV(t, n, s, e, k) == [t |-> t, n |-> n, s |-> s, e |-> e, k |-> k]

JNull == JV("null", 0, <<>>, <<>>, <<>>)

JUndefined == JV("undefined", 0, <<>>, <<>>, <<>>)

JBool(b) == JV(IF b THEN "true" ELSE "false", 0, <<>>, <<>>, <<>>)

JNum(n) == JV("num", n, <<>>, <<>>, <<>>)

JStr(s) == JV("str", 0, s, <<>>, <<>>)

JArr(e) == JV("arr", 0, <<>>, e, <<>>)

JObj(k, e) == JV("obj", 0, <<>>, e, k)

\* v[key]: the member named key (the last one of that name), or undefined
Get(v, key) ==
  IF v.t = "obj" /\ \E i \in DOMAIN v.k : v.k[i] = key
  THEN v.e[CHOOSE i \in DOMAIN v.k :
              v.k[i] = key /\ \A j \in DOMAIN v.k : v.k[j] = key => j <= i]
  ELSE JUndefined

\* JavaScript truthiness of a value
JTruthy(v) ==
  CASE v.t \in {"null", "undefined", "false"} -> FALSE
    [] v.t = "num" -> v.n # 0
    [] v.t = "str" -> v.s # <<>>
    [] OTHER -> TRUE

\* the decimal digits of a natural number
RECURSIVE Decimal(_)
Decimal(n) ==
  LET d == <<"0", "1", "2", "3", "4", "5", "6", "7", "8", "9">>[(n % 10) + 1]
  IN  IF n < 10 THEN <<d>> ELSE Decimal(n \div 10) \o <<d>>

(***************************************************************************)
(* JSON.parse, by recursive descent on the characters.  Supported: the     *)
(* literals, integers, strings without escapes, arrays and objects; no     *)
(* text of the model holds a fraction, an exponent or a backslash.  A      *)
(* result is [ok, val, pos, err]: on success pos is the index after the    *)
(* value; on failure pos is the index of the offending character and err   *)
(* is "token" (a character that starts no value), "punct" (a character     *)
(* where a comma, a colon, a bracket, a member name or a digit is due),    *)
(* "eos" (the text ends too early) or "trailing" (text after the value).   *)
(***************************************************************************)
JsonWs == {" ", "\n", "\t", "\r"}

Quote == "\""

S_null ==
  <<"n", "u", "l", "l">>

S_true ==
  <<"t", "r", "u", "e">>

S_false ==
  <<"f", "a", "l", "s", "e">>

Ok(val, pos) == [ok |-> TRUE, val |-> val, pos |-> pos, err |-> "none"]

Fail(s, pos, err) ==
  [ok |-> FALSE, val |-> JNull, pos |-> pos,
   err |-> IF pos > Len(s) THEN "eos" ELSE err]

\* the first index from i on that holds no white space
SkipWs(s, i) == i + LeadCount(Drop(s, i - 1), JsonWs)

\* the first index from i on that holds a double quote (Len(s) + 1: none)
RECURSIVE FindQuote(_, _)
FindQuote(s, i) ==
  IF i > Len(s) \/ s[i] = Quote THEN i ELSE FindQuote(s, i + 1)

\* a string whose opening quote is at i
ParseStringAt(s, i) ==
  LET j == FindQuote(s, i + 1)
  IN  IF j > Len(s) THEN Fail(s, j, "eos")
      ELSE Ok(JStr(SubSeq(s, i + 1, j - 1)), j + 1)

\* a number that starts at i: an optional minus sign, then 0 or a run of
\* digits that does not start with 0
ParseNumberAt(s, i) ==
  LET neg == s[i] = "-"
      j   == IF neg THEN i + 1 ELSE i
      n   == LeadCount(Drop(s, j - 1), Digits)
      m   == IF n > 0 /\ s[j] = "0" THEN 1 ELSE n
      abs == DigitsVal(SubSeq(s, j, j + m - 1))
  IN  IF n = 0 THEN Fail(s, j, "punct")
      ELSE Ok(JNum(IF neg THEN 0 - abs ELSE abs), j + m)

RECURSIVE ParseValue(_, _)
RECURSIVE ParseElements(_, _, _, _)
RECURSIVE ParseMembers(_, _, _, _, _)

ParseValue(s, i0) ==
  LET i    == SkipWs(s, i0)
      rest == Drop(s, i - 1)
  IN  IF i > Len(s) THEN Fail(s, i, "eos")
      ELSE IF s[i] = "{" THEN ParseMembers(s, i + 1, <<>>, <<>>, TRUE)
      ELSE IF s[i] = "[" THEN ParseElements(s, i + 1, <<>>, TRUE)
      ELSE IF s[i] = Quote THEN ParseStringAt(s, i)
      ELSE IF s[i] = "-" \/ s[i] \in Digits THEN ParseNumberAt(s, i)
      ELSE IF StartsWith(rest, S_null) THEN Ok(JNull, i + 4)
      ELSE IF StartsWith(rest, S_true) THEN Ok(JBool(TRUE), i + 4)
      ELSE IF StartsWith(rest, S_false) THEN Ok(JBool(FALSE), i + 5)
      ELSE Fail(s, i, "token")

\* the elements of an array after its "[" (first) or after a ","
ParseElements(s, i0, acc, first) ==
  LET i == SkipWs(s, i0)
      r == ParseValue(s, i)
      j == SkipWs(s, r.pos)
  IN  IF i > Len(s) THEN Fail(s, i, "eos")
      ELSE IF first /\ s[i] = "]" THEN Ok(JArr(acc), i + 1)
      ELSE IF ~r.ok THEN r
      ELSE IF j > Len(s) THEN Fail(s, j, "eos")
      ELSE IF s[j] = "," THEN ParseElements(s, j + 1, Append(acc, r.val), FALSE)
      ELSE IF s[j] = "]" THEN Ok(JArr(Append(acc, r.val)), j + 1)
      ELSE Fail(s, j, "punct")

\* the members of an object after its "{" (first) or after a ","
ParseMembers(s, i0, ks, vs, first) ==
  LET i == SkipWs(s, i0)
      k == ParseStringAt(s, i)
      c == SkipWs(s, k.pos)
      v == ParseValue(s, c + 1)
      d == SkipWs(s, v.pos)
  IN  IF i > Len(s) THEN Fail(s, i, "eos")
      ELSE IF first /\ s[i] = "}" THEN Ok(JObj(ks, vs), i + 1)
      ELSE IF s[i] # Quote THEN Fail(s, i, "punct")
      ELSE IF ~k.ok THEN k
      ELSE IF c > Len(s) \/ s[c] # ":" THEN Fail(s, c, "punct")
      ELSE IF ~v.ok THEN v
      ELSE IF d > Len(s) THEN Fail(s, d, "eos")
      ELSE IF s[d] = ","
      THEN ParseMembers(s, d + 1, Append(ks, k.val.s), Append(vs, v.val), FALSE)
      ELSE IF s[d] = "}"
      THEN Ok(JObj(Append(ks, k.val.s), Append(vs, v.val)), d + 1)
      ELSE Fail(s, d, "punct")

\* JSON.parse(text): one value, then nothing but white space
JSONparse(text) ==
  LET r == ParseValue(text, 1)
      j == SkipWs(text, r.pos)
  IN  IF ~r.ok THEN r
      ELSE IF j <= Len(text)
      THEN [ok |-> FALSE, val |-> JNull, pos |-> j, err |-> "trailing"]
      ELSE r

(***************************************************************************)
(* The message of the SyntaxError JSON.parse throws.  Its text is the      *)
(* engine's.  For a character that starts no value V8 quotes the source    *)
(* text around it (the whole text when it is shorter than 21 characters,   *)
(* else up to 10 characters on each side); other engines, and V8 for the   *)
(* other errors, name only the character or its position.                  *)
(***************************************************************************)
S_UnexpectedToken ==
  <<"U", "n", "e", "x", "p", "e", "c", "t", "e", "d", " ", "t", "o", "k",
    "e", "n", " ">>

S_NotValidJson ==
  <<" ", "i", "s", " ", "n", "o", "t", " ", "v", "a", "l", "i", "d", " ",
    "J", "S", "O", "N">>

S_InJsonAtPosition ==
  <<" ", "i", "n", " ", "J", "S", "O", "N", " ", "a", "t", " ", "p", "o",
    "s", "i", "t", "i", "o", "n", " ">>

S_UnexpectedEnd ==
  <<"U", "n", "e", "x", "p", "e", "c", "t", "e", "d", " ", "e", "n", "d",
    " ", "o", "f", " ", "J", "S", "O", "N", " ", "i", "n", "p", "u", "t">>

S_AfterJson ==
  <<"U", "n", "e", "x", "p", "e", "c", "t", "e", "d", " ", "n", "o", "n",
    "-", "w", "h", "i", "t", "e", "s", "p", "a", "c", "e", " ", "c", "h",
    "a", "r", "a", "c", "t", "e", "r", " ", "a", "f", "t", "e", "r", " ",
    "J", "S", "O", "N", " ", "a", "t", " ", "p", "o", "s", "i", "t", "i",
    "o", "n", " ">>

S_Dots ==
  <<".", ".", ".">>

V8Context(text, pos) ==
  LET lo == IF pos - 1 - 10 < 0 THEN 0 ELSE pos - 1 - 10
      hi == IF pos - 1 + 10 > Len(text) THEN Len(text) ELSE pos - 1 + 10
  IN  IF Len(text) < 2 * 10 + 1 THEN <<Quote>> \o text \o <<Quote>>
      ELSE (IF lo > 0 THEN S_Dots ELSE <<>>)
           \o <<Quote>> \o SubSeq(text, lo + 1, hi) \o <<Quote>>
           \o (IF hi < Len(text) THEN S_Dots ELSE <<>>)

SyntaxErrorMessages(text, r) ==
  IF r.err = "eos" THEN {S_UnexpectedEnd}
  ELSE IF r.err = "trailing" THEN {S_AfterJson \o Decimal(r.pos - 1)}
  ELSE IF r.err = "punct"
  THEN {S_UnexpectedToken \o <<text[r.pos]>> \o S_InJsonAtPosition
          \o Decimal(r.pos - 1)}
  ELSE { S_UnexpectedToken \o <<"'", text[r.pos], "'", ",", " ">>
           \o V8Context(text, r.pos) \o S_NotValidJson,
         S_UnexpectedToken \o <<text[r.pos]>> \o S_InJsonAtPosition
           \o Decimal(r.pos - 1) }


(***************************************************************************)
(* analyzeAnomalies: the call of the AI service and the handling of what   *)
(* it yields.  An outcome of ai.models.generateContent is a rejection      *)
(* with an error (cause tells what failed at the service; message is the   *)
(* error's message, which may be undefined) or a response whose text is a  *)
(* string or undefined.                                                    *)
(***************************************************************************)
Rejected(cause, message) ==
  [kind |-> "reject", cause |-> cause, message |-> message, text |-> Undefined]

Resolved(text) ==
  [kind |-> "resolve", cause |-> "none", message |-> Undefined, text |-> text]

S_403 ==
  <<"4", "0", "3">>

S_ApiKey ==
  <<"A", "P", "I", " ", "k", "e", "y">>

S_EmptyResponse ==
  <<"G", "e", "m", "i", "n", "i", " ", "r", "e", "t", "u", "r", "n", "e",
    "d", " ", "a", "n", " ", "e", "m", "p", "t", "y", " ", "r", "e", "s",
    "p", "o", "n", "s", "e", ".">>

S_InvalidKey ==
 
  <<"I", "n", "v", "a", "l", "i", "d", " ", "o", "r", " ", "m", "i", "s",
    "s", "i", "n", "g", " ", "A", "P", "I", " ", "K", "e", "y", ".", " ">>
  \o
  <<"P", "l", "e", "a", "s", "e", " ", "c", "h", "e", "c", "k", " ", "y",
    "o", "u", "r", " ", "V", "e", "r", "c", "e", "l", " ", "e", "n", "v",
    "i", "r", "o", "n", "m", "e", "n", "t", " ", "v", "a", "r", "i", "a",
    "b", "l", "e", "s", ".">>

S_FailedToAnalyze ==
  <<"F", "a", "i", "l", "e", "d", " ", "t", "o", " ", "a", "n", "a", "l",
    "y", "z", "e", " ", "d", "a", "t", "a", ".", " ">>

S_UnknownError ==
  <<"U", "n", "k", "n", "o", "w", "n", " ", "e", "r", "r", "o", "r">>

\* the catch block of analyzeAnomalies: the message of the Error it throws
\* for a caught error whose message is the given one
CatchMessage(message) ==
  IF message.def
     /\ (Includes(message.s, S_403) \/ Includes(message.s, S_ApiKey))
  THEN S_InvalidKey
  ELSE S_FailedToAnalyze
       \o (IF Truthy(message) THEN message.s ELSE S_UnknownError)

Returned(value) == [ok |-> TRUE, value |-> value, message |-> <<>>]

Thrown(message) == [ok |-> FALSE, value |-> JNull, message |-> message]

\* What analyzeAnomalies settles to, given the outcome of generateContent:
\* a returned value or a thrown Error.  A set, because the message of
\* JSON.parse's SyntaxError is the engine's.
AnalyzeAnomalies(outcome) ==
  IF outcome.kind = "reject"
  THEN {Thrown(CatchMessage(outcome.message))}
  ELSE IF ~Truthy(outcome.text)
  THEN {Thrown(CatchMessage(Str(S_EmptyResponse)))}
  ELSE LET cleanedJson == cleanJsonString(outcome.text.s)
           parsed      == JSONparse(cleanedJson)
       IN  IF parsed.ok THEN {Returned(parsed.val)}
           ELSE {Thrown(CatchMessage(Str(m))) :
                   m \in SyntaxErrorMessages(cleanedJson, parsed)}

(***************************************************************************)
(* The render of App: what the state shows.                                *)
(***************************************************************************)
K_summary ==
  <<"s", "u", "m", "m", "a", "r", "y">>

K_anomalies ==
  <<"a", "n", "o", "m", "a", "l", "i", "e", "s">>

K_transactionId ==
  <<"t", "r", "a", "n", "s", "a", "c", "t", "i", "o", "n", "I", "d">>

K_reason ==
  <<"r", "e", "a", "s", "o", "n">>

K_severity ==
  <<"s", "e", "v", "e", "r", "i", "t", "y">>

\* a variant that takes the id for the position in the list
FindTxByIndex(txs, anomaly) ==
  LET tid == Get(anomaly, K_transactionId)
  IN  IF tid.t = "num" /\ tid.n + 1 \in DOMAIN txs THEN tid.n + 1 ELSE 0

\* transactions.find(t => t.id === anomaly.transactionId): the index of the
\* first match, 0 when there is none
FindTx(txs, anomaly) ==
  LET tid   == Get(anomaly, K_transactionId)
      match == {i \in DOMAIN txs : tid.t = "num" /\ txs[i].id = tid.n}
  IN  IF match = {} THEN 0
      ELSE CHOOSE i \in match : \A j \in match : i <= j

\* analysis.anomalies.map((anomaly, idx) => ...): a table row for each
\* anomaly whose transaction is found, nothing (null) for the others
RECURSIVE TableRows(_, _, _)
TableRows(anomalies, txs, idx) ==
  IF idx > Len(anomalies) THEN <<>>
  ELSE LET i == FindTx(txs, anomalies[idx])
       IN  (IF i = 0 THEN <<>>
            ELSE <<[key |-> idx - 1, anomaly |-> anomalies[idx], tx |-> txs[i]]>>)
           \o TableRows(anomalies, txs, idx + 1)

\* React renders strings, numbers, null, undefined, booleans and arrays of
\* these as children; an object as a child throws
RECURSIVE Renderable(_)
Renderable(v) ==
  /\ v.t # "obj"
  /\ v.t = "arr" => \A i \in DOMAIN v.e : Renderable(v.e[i])

\* the render of the results section throws: analysis.anomalies.length and
\* .map need an array, anomaly.transactionId needs an anomaly that is not
\* null, and summary, severity and reason are rendered as children
ResultsThrow(an, txs) ==
  LET anomalies == Get(an, K_anomalies)
  IN  \/ anomalies.t # "arr"
      \/ \E i \in DOMAIN anomalies.e : anomalies.e[i].t = "null"
      \/ ~Renderable(Get(an, K_summary))
      \/ \E i \in DOMAIN anomalies.e :
           /\ FindTx(txs, anomalies.e[i]) # 0
           /\ \/ ~Renderable(Get(anomalies.e[i], K_severity))
              \/ ~Renderable(Get(anomalies.e[i], K_reason))

\* What App renders for a state: the FileUpload (upload), the 'Analyze
\* another file' button (reset), the error box, the results section with
\* its 'Issues Found' count and its table rows; crashed when the render
\* throws (React then unmounts the whole tree).
Render(txs, an, ls, err) ==
  LET results == ls = "COMPLETED" /\ JTruthy(an)
      crashed == results /\ ResultsThrow(an, txs)
      shown   == results /\ ~crashed
  IN  [crashed  |-> crashed,
       upload   |-> ~crashed /\ ls \in {"IDLE", "ERROR"},
       reset    |-> ~crashed /\ ls = "COMPLETED",
       errorBox |-> ~crashed /\ Truthy(err),
       results  |-> shown,
       issues   |-> IF shown THEN Len(Get(an, K_anomalies).e) ELSE 0,
       rows     |-> IF shown THEN TableRows(Get(an, K_anomalies).e, txs, 1)
                    ELSE <<>>]


(***************************************************************************)
(* The inputs: CSV files, and outcomes of the AI service.                  *)
(***************************************************************************)
\* all sequences over set S of length at most n
RECURSIVE SeqsUpTo(_, _)
SeqsUpTo(S, n) ==
  IF n = 0 THEN {<<>>}
  ELSE LET shorter == SeqsUpTo(S, n - 1)
       IN  shorter \cup {Append(q, x) : q \in shorter, x \in S}

S_X ==
  <<"X">>

S_A1 ==
  <<"A", "1">>

\* rows of the files selected in the application: a numeric amount with
\* the period 01, 02 or missing, an amount that is not numeric, and an
\* empty amount
AppRows ==
  {Row(Str(S_X), Str(<<"0", "1">>), Str(S_A1), Str(<<"5">>)),
   Row(Str(S_X), Str(<<"0", "2">>), Str(S_A1), Str(<<"5">>)),
   Row(Str(S_X), Undefined, Str(S_A1), Str(<<"5">>)),
   Row(Str(S_X), Str(<<"0", "1">>), Str(S_A1), Str(<<"x">>)),
   Row(Str(S_X), Str(<<"0", "1">>), Str(S_A1), Str(<<>>))}

\* A selected file, by what Papa Parse makes of it: its data rows (data),
\* whether it reports parse errors in results.errors (errors; a quote that
\* is never closed, a row with too few fields), and whether reading the
\* file fails (readError), which is what the error callback is called for.
File(name, data, errors, readError) ==
  [name |-> name, data |-> data, errors |-> errors, readError |-> readError]

NoFile == File("", <<>>, FALSE, FALSE)

AppFiles ==
  {File("a.csv", d, e, FALSE) : d \in SeqsUpTo(AppRows, MaxRows), e \in BOOLEAN}
  \cup {File("a.csv", <<>>, FALSE, TRUE)}

\* JSON.stringify without indentation, for the texts the service sends
RECURSIVE Stringify(_)
RECURSIVE StringifyItems(_, _, _)
Stringify(v) ==
  CASE v.t = "num" ->
         IF v.n < 0 THEN <<"-">> \o Decimal(0 - v.n) ELSE Decimal(v.n)
    [] v.t = "str" -> <<Quote>> \o v.s \o <<Quote>>
    [] v.t = "arr" -> <<"[">> \o StringifyItems(v, 1, FALSE) \o <<"]">>
    [] v.t = "obj" -> <<"{">> \o StringifyItems(v, 1, TRUE) \o <<"}">>
    [] v.t = "true" -> S_true
    [] v.t = "false" -> S_false
    [] OTHER -> S_null

StringifyItems(v, i, named) ==
  IF i > Len(v.e) THEN <<>>
  ELSE (IF i > 1 THEN <<",">> ELSE <<>>)
       \o (IF named THEN <<Quote>> \o v.k[i] \o <<Quote, ":">> ELSE <<>>)
       \o Stringify(v.e[i])
       \o StringifyItems(v, i + 1, named)

S_HIGH ==
  <<"H", "I", "G", "H">>

S_MEDIUM ==
  <<"M", "E", "D", "I", "U", "M">>

S_LOW ==
  <<"L", "O", "W">>

S_CRITICAL ==
  <<"C", "R", "I", "T", "I", "C", "A", "L">>

Finding(transactionId, severity) ==
  JObj(<<K_transactionId, K_reason, K_severity>>,
       <<transactionId, JStr(<<"r">>), JStr(severity)>>)

Result(summary, anomalies) ==
  JObj(<<K_anomalies, K_summary>>, <<JArr(anomalies), summary>>)

F0 == Finding(JNum(0), S_HIGH)

F1 == Finding(JNum(1), S_MEDIUM)

FNone == Finding(JNum(9999), S_LOW)

FCritical == Finding(JNum(0), S_CRITICAL)

FStringId == Finding(JStr(<<"0">>), S_HIGH)

\* results of the declared shape
ConformingResults ==
  {Result(JStr(<<"s">>), a) :
     a \in {<<>>, <<F0>>, <<F1>>, <<FNone>>, <<F1, F0>>, <<FNone, F0>>,
            <<F0, F0>>, <<F0, FNone, F1>>}}

\* JSON values that are not of the declared shape
NonConformingResults ==
  {Result(JStr(<<"s">>), <<FCritical>>),
   Result(JStr(<<"s">>), <<F1, FCritical>>),
   Result(JStr(<<"s">>), <<FStringId>>),
   Result(JStr(<<"s">>), <<JNull>>),
   Result(JObj(<<>>, <<>>), <<F0>>),
   JObj(<<K_anomalies>>, <<JArr(<<F0>>)>>),
   JObj(<<K_summary>>, <<JStr(<<"s">>)>>),
   JObj(<<>>, <<>>),
   JArr(<<>>),
   JNum(403),
   JNull}

Fenced(tag, text) == S_Fence \o tag \o <<"\n">> \o text \o <<"\n">> \o S_Fence

S_json ==
  <<"j", "s", "o", "n">>

\* texts that are no JSON
S_ApiKeyExpired ==
  <<"A", "P", "I", " ", "k", "e", "y", " ", "e", "x", "p", "i", "r", "e",
    "d">>

S_Sorry ==
  <<"S", "o", "r", "r", "y", ",", " ", "I", " ", "f", "o", "u", "n", "d",
    " ", "n", "o", " ", "a", "n", "o", "m", "a", "l", "i", "e", "s", ".">>

S_Truncated ==
  <<"{", "\"", "s", "u", "m", "m", "a", "r", "y", "\"", ":">>

S_TrailingComma ==
  <<"{", "\"", "s", "u", "m", "m", "a", "r", "y", "\"", ":", "1", ",", "}">>

ReplyTexts ==
  {Stringify(v) : v \in ConformingResults \cup NonConformingResults}
  \cup {Fenced(S_json, Stringify(Result(JStr(<<"s">>), <<F1, F0>>))),
        Fenced(<<>>, Stringify(Result(JStr(<<"s">>), <<F0>>))),
        Fenced(<<"j", "s">>, Stringify(Result(JStr(<<"s">>), <<F0>>))),
        S_ApiKeyExpired, S_Sorry, S_Truncated, S_TrailingComma, <<" ">>}

S_Status403 ==
  <<"g", "o", "t", " ", "s", "t", "a", "t", "u", "s", ":", " ", "4", "0",
    "3", " ", "F", "o", "r", "b", "i", "d", "d", "e", "n">>

S_KeyNotValid ==
  <<"A", "P", "I", " ", "k", "e", "y", " ", "n", "o", "t", " ", "v", "a",
    "l", "i", "d", ".", " ", "P", "l", "e", "a", "s", "e", " ", "p", "a",
    "s", "s", " ", "a", " ", "v", "a", "l", "i", "d", " ", "A", "P", "I",
    " ", "k", "e", "y", ".">>

S_FailedToFetch ==
  <<"F", "a", "i", "l", "e", "d", " ", "t", "o", " ", "f", "e", "t", "c",
    "h">>

ServiceOutcomes ==
  {Rejected("auth", Str(S_Status403)),
   Rejected("auth", Str(S_KeyNotValid)),
   Rejected("transport", Str(S_FailedToFetch)),
   Rejected("transport", Undefined),
   Resolved(Undefined),
   Resolved(Str(<<>>))}
  \cup {Resolved(Str(t)) : t \in ReplyTexts}

(***************************************************************************)
(* The state.                                                              *)
(***************************************************************************)
VARIABLES
  \* the state of App (useState)
  transactions, analysis, loadingState, error, fileName,
  \* the file of the upload/analysis cycle under way (none after 'Analyze
  \* another file'), whether Papa Parse is still reading it, the call of
  \* the service made by the cycle (its request and whether it is still
  \* awaited), how many requests the cycle has sent, and the outcome of
  \* the cycle's call
  file, papa, call, sent, reply,
  \* the pure functions checked on their own: argument and result of the
  \* normalizer, of cleanJsonString and of the sample builder
  pc, rows, parsedData, wrapped, cleanedJson, data, sampleData

appVars == <<transactions, analysis, loadingState, error, fileName,
             file, papa, call, sent, reply>>

pureVars == <<pc, rows, parsedData, wrapped, cleanedJson, data, sampleData>>

vars == <<appVars, pureVars>>

NoCall == [pending |-> FALSE, contents |-> <<>>]

NoReply == Resolved(Undefined)

NoWrap == [json |-> <<>>, fenced |-> FALSE, tag |-> <<>>, text |-> <<>>]

AppIdle ==
  /\ transactions = <<>>
  /\ analysis = JNull
  /\ loadingState = "IDLE"
  /\ error = Undefined
  /\ fileName = ""
  /\ file = NoFile
  /\ papa = "idle"
  /\ call = NoCall
  /\ sent = 0
  /\ reply = NoReply

PureIdle ==
  /\ pc = "idle"
  /\ rows = <<>>
  /\ parsedData = <<>>
  /\ wrapped = NoWrap
  /\ cleanedJson = <<>>
  /\ data = <<>>
  /\ sampleData = <<>>

\* what is on the screen
View == Render(transactions, analysis, loadingState, error)

(***************************************************************************)
(* The application: one action for each handler.                           *)
(***************************************************************************)
Init == AppIdle /\ PureIdle

\* a variant called from a FileUpload that is rendered in every state
HandleFileSelectAnyTime ==
  /\ \E f \in AppFiles :
       /\ file' = f
       /\ fileName' = f.name
  /\ error' = Undefined
  /\ loadingState' = "PARSING"
  /\ analysis' = JNull
  /\ transactions' = <<>>
  /\ papa' = "reading"
  /\ sent' = 0
  /\ reply' = NoReply
  /\ call' = IF call.pending THEN call ELSE NoCall
  /\ UNCHANGED pureVars

\* handleFileSelect, called by FileUpload (handleChange, handleDrop) with
\* the chosen file; FileUpload is rendered in IDLE and ERROR only.  The
\* handler cancels nothing: a call still awaited stays awaited.
HandleFileSelect ==
  /\ View.upload
  /\ \E f \in AppFiles :
       /\ file' = f
       /\ fileName' = f.name
  /\ error' = Undefined
  /\ loadingState' = "PARSING"
  /\ analysis' = JNull
  /\ transactions' = <<>>
  /\ papa' = "reading"
  /\ sent' = 0
  /\ reply' = NoReply
  /\ call' = IF call.pending THEN call ELSE NoCall
  /\ UNCHANGED pureVars

S_NoValidData ==
  <<"N", "o", " ", "v", "a", "l", "i", "d", " ", "d", "a", "t", "a", " ",
    "f", "o", "u", "n", "d", " ", "i", "n", " ", "C", "S", "V", ".">>

S_FailedToParse ==
  <<"F", "a", "i", "l", "e", "d", " ", "t", "o", " ", "p", "a", "r", "s",
    "e", " ", "C", "S", "V", ".">>

\* startAnalysis up to its await: the state is ANALYZING and the request
\* built by analyzeAnomalies is on its way
StartAnalysis(parsed) ==
  /\ loadingState' = "ANALYZING"
  /\ call' = [pending |-> TRUE, contents |-> SampleData(parsed)]
  /\ sent' = sent + 1

\* the catch of the complete callback
ParseFailed(message) ==
  /\ error' = Str(IF message # <<>> THEN message ELSE S_FailedToParse)
  /\ loadingState' = "ERROR"
  /\ UNCHANGED <<transactions, call, sent>>

\* the complete callback of Papa.parse
PapaComplete ==
  /\ papa = "reading"
  /\ ~file.readError
  /\ papa' = "idle"
  /\ LET parsed == ParsedData(file.data)
     IN  IF Len(parsed) = 0 THEN ParseFailed(S_NoValidData)
         ELSE \E o \in SortOutcomes(parsed) :
                IF o.threw THEN ParseFailed(o.message)
                ELSE /\ transactions' = o.data
                     /\ StartAnalysis(o.data)
                     /\ UNCHANGED error
  /\ UNCHANGED <<analysis, fileName, file, reply, pureVars>>

S_NotReadable ==
  <<"T", "h", "e", " ", "r", "e", "q", "u", "e", "s", "t", "e", "d", " ",
    "f", "i", "l", "e", " ", "c", "o", "u", "l", "d", " ", "n", "o", "t",
    " ", "b", "e", " ", "r", "e", "a", "d", ".">>

\* a variant that goes back to IDLE
PapaErrorToIdle ==
  /\ papa = "reading"
  /\ file.readError
  /\ papa' = "idle"
  /\ error' = Str(S_NotReadable)
  /\ loadingState' = "IDLE"
  /\ UNCHANGED <<transactions, analysis, fileName, file, call, sent, reply,
                 pureVars>>

\* the error callback of Papa.parse
PapaError ==
  /\ papa = "reading"
  /\ file.readError
  /\ papa' = "idle"
  /\ error' = Str(S_NotReadable)
  /\ loadingState' = "ERROR"
  /\ UNCHANGED <<transactions, analysis, fileName, file, call, sent, reply,
                 pureVars>>

\* a variant that sends the request once more after a failure
AwaitAnalyzeAnomaliesRetry ==
  /\ call.pending
  /\ \E o \in ServiceOutcomes :
       /\ reply' = o
       /\ \E r \in AnalyzeAnomalies(o) :
            IF r.ok
            THEN /\ analysis' = r.value
                 /\ loadingState' = "COMPLETED"
                 /\ call' = NoCall
                 /\ UNCHANGED <<error, sent>>
            ELSE IF sent < 2
            THEN /\ sent' = sent + 1
                 /\ UNCHANGED <<analysis, loadingState, call, error>>
            ELSE /\ error' = Str(r.message)
                 /\ loadingState' = "ERROR"
                 /\ call' = NoCall
                 /\ UNCHANGED <<analysis, sent>>
  /\ UNCHANGED <<transactions, fileName, file, papa, pureVars>>

\* startAnalysis after its await: analyzeAnomalies has returned or thrown
AwaitAnalyzeAnomalies ==
  /\ call.pending
  /\ call' = [call EXCEPT !.pending = FALSE]
  /\ \E o \in ServiceOutcomes :
       /\ reply' = o
       /\ \E r \in AnalyzeAnomalies(o) :
            IF r.ok
            THEN /\ analysis' = r.value
                 /\ loadingState' = "COMPLETED"
                 /\ UNCHANGED error
            ELSE /\ error' = Str(r.message)
                 /\ loadingState' = "ERROR"
                 /\ UNCHANGED analysis
  /\ UNCHANGED <<transactions, fileName, file, papa, sent, pureVars>>

\* the onClick of 'Analyze another file', rendered in COMPLETED only
AnalyzeAnother ==
  /\ View.reset
  /\ loadingState' = "IDLE"
  /\ analysis' = JNull
  /\ transactions' = <<>>
  /\ file' = NoFile
  /\ sent' = 0
  /\ reply' = NoReply
  /\ call' = IF call.pending THEN call ELSE NoCall
  /\ UNCHANGED <<error, fileName, papa, pureVars>>

Next ==
  \/ HandleFileSelect
  \/ PapaComplete
  \/ PapaError
  \/ AwaitAnalyzeAnomalies
  \/ AnalyzeAnother

Spec == Init /\ [][Next]_vars


(***************************************************************************)
(* The normalizer on its own: lines 28 to 45 of the complete callback      *)
(* applied to the rows of a file.  An input is a probed row, whose amount  *)
(* field is undefined, or any string of at most MaxAmountLen characters of *)
(* AmountChars, or an infinity, between at most MaxFill filler rows.       *)
(***************************************************************************)
AmountChars == {"1", ",", ".", "-", "x", " "}

ProbeAmounts ==
  {Undefined, Str(S_Infinity), Str(<<"-">> \o S_Infinity)}
  \cup {Str(s) : s \in StringsUpTo(AmountChars, MaxAmountLen)}

ProbeRows == {Row(Str(S_X), Str(<<"0", "1">>), Str(S_A1), a) : a \in ProbeAmounts}

FillerRows ==
  {Row(Str(S_X), Str(<<"0", "2">>), Str(S_A1), Str(<<"5">>)),
   Row(Str(S_X), Str(<<"0", "1">>), Str(S_A1), Str(<<"x">>))}

NormInputs ==
  {pre \o <<probe>> \o post :
     pre \in SeqsUpTo(FillerRows, MaxFill),
     probe \in ProbeRows,
     post \in SeqsUpTo(FillerRows, MaxFill)}

InitNorm ==
  /\ AppIdle
  /\ pc = "call"
  /\ rows \in NormInputs
  /\ parsedData = <<>>
  /\ wrapped = NoWrap
  /\ cleanedJson = <<>>
  /\ data = <<>>
  /\ sampleData = <<>>

Normalize ==
  /\ pc = "call"
  /\ parsedData' = ParsedData(rows)
  /\ pc' = "return"
  /\ UNCHANGED <<appVars, rows, wrapped, cleanedJson, data, sampleData>>

NextNorm == Normalize

SpecNorm == InitNorm /\ [][NextNorm]_vars

(***************************************************************************)
(* cleanJsonString on its own.  An input is a JSON text, bare or wrapped   *)
(* in a leading fence (with a language hint or without one) and a          *)
(* trailing fence, with white space around the parts.                      *)
(***************************************************************************)
JsonTexts ==
  {
  <<"{", "}">>,
  <<"[", "1", "]">>,
  <<"1", "2">>,
  <<"n", "u", "l", "l">>,
  <<"\"", "a", "\"">>,
  <<"\"", Backtick, Backtick, Backtick, "\"">>,
   
  <<"{", "\"", "a", "\"", ":", "[", "]", "}">>,
  <<" ", "[", " ", "1", " ", ",", " ", "2", " ", "]", " ">> }

FenceTags == {<<>>, S_json,
  <<"J", "S", "O", "N">>,
  <<"j", "s">>,
  <<"j", "s", "o", "n", "5">>,
  <<"j", "a", "v", "a", "s", "c", "r", "i", "p", "t">> }

Gaps == {<<>>, <<"\n">>, <<" ">>}

Wrap(json, fenced, tag, text) ==
  [json |-> json, fenced |-> fenced, tag |-> tag, text |-> text]

CleanInputs ==
  {Wrap(j, FALSE, <<>>, lead \o j \o trail) :
     j \in JsonTexts, lead \in Gaps, trail \in Gaps}
  \cup
  {Wrap(j, TRUE, tag, lead \o S_Fence \o tag \o gap \o j \o trail \o S_Fence \o lead) :
     j \in JsonTexts, tag \in FenceTags, lead \in {<<>>, <<"\n">>},
     gap \in {<<"\n">>, <<" ">>}, trail \in {<<>>, <<"\n">>}}

InitClean ==
  /\ AppIdle
  /\ pc = "call"
  /\ wrapped \in CleanInputs
  /\ cleanedJson = <<>>
  /\ rows = <<>>
  /\ parsedData = <<>>
  /\ data = <<>>
  /\ sampleData = <<>>

Clean ==
  /\ pc = "call"
  /\ cleanedJson' = cleanJsonString(wrapped.text)
  /\ pc' = "return"
  /\ UNCHANGED <<appVars, rows, parsedData, wrapped, data, sampleData>>

NextClean == Clean

SpecClean == InitClean /\ [][NextClean]_vars

(***************************************************************************)
(* The sample builder on its own, on lists of up to SampleCap + MaxOver    *)
(* records whose ids ascend or descend (a list sorted by period does not   *)
(* hold its ids in order).                                                 *)
(***************************************************************************)
Tx(id) ==
  [id |-> id, BA |-> Str(S_X), monthly |-> Str(<<"0", "1">>),
   actCode |-> Str(S_A1), amount |-> Finite(FALSE, 5, 0),
   originalAmountStr |-> Str(<<"5">>)]

SampleInputs ==
  {[i \in 1..n |-> Tx(IF descending THEN n - i ELSE i - 1)] :
     n \in 0..(SampleCap + MaxOver), descending \in BOOLEAN}

InitSample ==
  /\ AppIdle
  /\ pc = "call"
  /\ data \in SampleInputs
  /\ sampleData = <<>>
  /\ rows = <<>>
  /\ parsedData = <<>>
  /\ wrapped = NoWrap
  /\ cleanedJson = <<>>

Sample ==
  /\ pc = "call"
  /\ sampleData' = SampleData(data)
  /\ pc' = "return"
  /\ UNCHANGED <<appVars, rows, parsedData, wrapped, cleanedJson, data>>

NextSample == Sample

SpecSample == InitSample /\ [][NextSample]_vars


(***************************************************************************)
(* The claims.                                                             *)
(***************************************************************************)
\* A string has a numeric prefix: after leading white space and an optional
\* sign comes a digit, a point and a digit, or the word Infinity.
HasNumericPrefix(s) ==
  LET t == TrimStart(s)
      u == IF t # <<>> /\ Head(t) \in {"+", "-"} THEN Tail(t) ELSE t
  IN  \/ u # <<>> /\ Head(u) \in Digits
      \/ Len(u) >= 2 /\ u[1] = "." /\ u[2] \in Digits
      \/ StartsWith(u, S_Infinity)

\* The rows the normalizer keeps: those with an empty or missing amount
\* and those whose amount, without its commas, has a numeric prefix.
KeepsRow(row) ==
  \/ ~row.amount.def
  \/ row.amount.s = <<>>
  \/ HasNumericPrefix(RemoveChar(row.amount.s, ","))

\* The amount of a row, without its commas, parses to a finite number.
ParsesFinite(row) ==
  /\ row.amount.def
  /\ parseFloat(RemoveChar(row.amount.s, ",")).kind = "finite"

\* Row i of the input has a record in the output (its id is i - 1).
HasRecord(i) == \E j \in DOMAIN parsedData : parsedData[j].id = i - 1

\* C1 as stated: the ids of the records are the dense sequence 0..k-1 in
\* the order of the kept rows, so that a dropped row before a kept row
\* leaves no gap.
C1_IdsDense ==
  pc = "return" =>
    \A j \in DOMAIN parsedData : parsedData[j].id = j - 1

\* C1 as amended: the id of a record is the zero-based position of its row
\* among all data rows, dropped ones included.  The records are in the
\* order of their rows, each is built from the row its id names, and the
\* ids are those of the kept rows: every dropped row before a kept row
\* leaves a gap.
C1_IdsAreRowPositions ==
  pc = "return" =>
    /\ \A j \in DOMAIN parsedData :
         /\ parsedData[j].id + 1 \in DOMAIN rows
         /\ parsedData[j].originalAmountStr = rows[parsedData[j].id + 1].amount
         /\ parsedData[j].monthly = rows[parsedData[j].id + 1].monthly
         /\ parsedData[j].id =
              (j - 1) + Cardinality({i \in 1..parsedData[j].id : ~KeepsRow(rows[i])})
    /\ \A j \in DOMAIN parsedData :
         j > 1 => parsedData[j - 1].id < parsedData[j].id
    /\ {parsedData[j].id : j \in DOMAIN parsedData}
         = {i - 1 : i \in {i \in DOMAIN rows : KeepsRow(rows[i])}}

\* C1's case: a row is dropped before a row that is kept, and the kept
\* row's id is not its position among the kept rows.
C1_Witness ==
  /\ pc = "return"
  /\ \E j \in DOMAIN parsedData :
       /\ parsedData[j].id > j - 1
       /\ ~KeepsRow(rows[1])

\* C2 as stated: a row has a record if and only if its amount, with the
\* commas removed, parses to a finite number; rows with an empty, missing,
\* non-numeric or non-finite amount are dropped, and there are as many
\* records as rows with a finite parsed amount.
C2_KeptIffFinite ==
  pc = "return" =>
    /\ \A i \in DOMAIN rows : HasRecord(i) <=> ParsesFinite(rows[i])
    /\ Len(parsedData) = Cardinality({i \in DOMAIN rows : ParsesFinite(rows[i])})

\* C2 as amended: a row has a record if and only if its amount is empty or
\* missing (it is then read as 0), or its amount without the commas has a
\* numeric prefix (the rest of the field is ignored, and Infinity counts);
\* there are as many records as such rows, and the amount of a record is
\* not NaN.
C2_KeptIffNumericPrefix ==
  pc = "return" =>
    /\ \A i \in DOMAIN rows : HasRecord(i) <=> KeepsRow(rows[i])
    /\ Len(parsedData) = Cardinality({i \in DOMAIN rows : KeepsRow(rows[i])})
    /\ \A j \in DOMAIN parsedData :
         /\ parsedData[j].amount.kind \in {"finite", "Infinity"}
         /\ ~Truthy(parsedData[j].originalAmountStr)
              => parsedData[j].amount = Finite(FALSE, 0, 0)

\* C2's case: a row with an empty or missing amount is kept, a row with an
\* infinite amount or with text after the number is kept, and a row is
\* dropped.
C2_Witness ==
  /\ pc = "return"
  /\ \E i \in DOMAIN rows : ~KeepsRow(rows[i]) /\ ~HasRecord(i)
  /\ \E i \in DOMAIN rows : HasRecord(i) /\ ~ParsesFinite(rows[i])


\* The amount of a row is valid as the specification has it: it parses to
\* a finite number.
NoValidAmount(rs) == \A i \in DOMAIN rs : ~ParsesFinite(rs[i])

\* The parse of the cycle's file is over (complete or error was called).
Ingested == file # NoFile /\ papa = "idle"

\* C3: when the CSV has no data rows, or no data row has a valid amount,
\* or the parser reports a structural error, the cycle ends in ERROR with
\* a non-empty error message, no transactions are held and no request is
\* sent to the AI service.
C3_FailedIngestionEndsInError ==
  (/\ Ingested
   /\ \/ file.data = <<>>
      \/ NoValidAmount(file.data)
      \/ file.errors
      \/ file.readError)
  => /\ loadingState = "ERROR"
     /\ Truthy(error)
     /\ transactions = <<>>
     /\ sent = 0
     /\ ~call.pending

Min(a, b) == IF a <= b THEN a ELSE b

\* C4: the outbound payload holds min(n, cap) entries, cap = 500, and they
\* are the first min(n, cap) records of the list in its order, each with
\* the id, activity code, period and amount of the record it projects and
\* nothing else.
C4_SampleIsCappedPrefix ==
  pc = "return" =>
    /\ Len(sampleData) = Min(Len(data), SampleCap)
    /\ \A i \in DOMAIN sampleData :
         /\ DOMAIN sampleData[i] = {"id", "actCode", "monthly", "amount"}
         /\ sampleData[i].id = data[i].id
         /\ sampleData[i].actCode = data[i].actCode
         /\ sampleData[i].monthly = data[i].monthly
         /\ sampleData[i].amount = data[i].amount

\* C4's case: a list longer than the cap, whose ids are not in order, has
\* been cut to the cap.
C4_Witness ==
  /\ pc = "return"
  /\ Len(data) > SampleCap
  /\ Len(sampleData) = SampleCap
  /\ data[1].id # 0
  /\ sampleData[SampleCap].id = data[SampleCap].id

\* A JSON value has the shape of AnalysisResult: an object with a string
\* summary and an array anomalies of objects with a number transactionId,
\* a string reason and a severity that is HIGH, MEDIUM or LOW.
Conforms(v) ==
  /\ v.t = "obj"
  /\ Get(v, K_summary).t = "str"
  /\ Get(v, K_anomalies).t = "arr"
  /\ \A i \in DOMAIN Get(v, K_anomalies).e :
       LET a == Get(v, K_anomalies).e[i]
       IN  /\ a.t = "obj"
           /\ Get(a, K_transactionId).t = "num"
           /\ Get(a, K_reason).t = "str"
           /\ Get(a, K_severity) \in {JStr(S_HIGH), JStr(S_MEDIUM), JStr(S_LOW)}

\* The call of the cycle has settled.
Settled == sent > 0 /\ ~call.pending


\* C5: a response that is not of the declared shape (a severity outside
\* HIGH, MEDIUM, LOW, a transactionId that is no number, a reason that is
\* no string, a summary that is missing or no string) is rejected as a
\* whole: the cycle ends in ERROR and no finding of it is stored or shown.
C5_NonConformingResponseRejected ==
  (/\ Settled
   /\ reply.kind = "resolve"
   /\ Truthy(reply.text)
   /\ JSONparse(cleanJsonString(reply.text.s)).ok
   /\ Get(JSONparse(cleanJsonString(reply.text.s)).val, K_anomalies).t = "arr"
   /\ ~Conforms(JSONparse(cleanJsonString(reply.text.s)).val))
  => /\ loadingState = "ERROR"
     /\ analysis = JNull
     /\ View.rows = <<>>

Matched(a) ==
  \E i \in DOMAIN transactions :
    Get(a, K_transactionId) = JNum(transactions[i].id)

\* C7: the displayed rows are the returned findings whose transactionId is
\* the id of a held transaction, each with that transaction, in the order
\* returned; a finding without a match is dropped and the state is not
\* ERROR.
C7_RowsAreMatchedFindings ==
  /\ (loadingState = "COMPLETED" /\ Conforms(analysis)) => View.results
  /\ View.results =>
       LET found == Get(analysis, K_anomalies).e
       IN  /\ loadingState = "COMPLETED"
           /\ Len(View.rows) = Cardinality({i \in DOMAIN found : Matched(found[i])})
           /\ \A r \in DOMAIN View.rows :
                /\ View.rows[r].key + 1 \in DOMAIN found
                /\ View.rows[r].anomaly = found[View.rows[r].key + 1]
                /\ Matched(View.rows[r].anomaly)
                /\ \E i \in DOMAIN transactions :
                     /\ View.rows[r].tx = transactions[i]
                     /\ Get(View.rows[r].anomaly, K_transactionId)
                          = JNum(transactions[i].id)
                /\ r > 1 => View.rows[r - 1].key < View.rows[r].key

\* C7's case: of the findings shown one has a match whose id is not its
\* place in the list, and one before it has none and is dropped.
C7_Witness ==
  /\ View.results
  /\ Len(View.rows) = 1
  /\ View.rows[1].key > 0
  /\ View.rows[1].tx.id # 0
  /\ transactions[1].id = View.rows[1].tx.id
  /\ View.issues > 1

\* C8: a failed analysis shows the credential message if and only if the
\* failure is an authentication or authorization failure of the service;
\* transport failures, empty responses and responses that do not parse
\* show the generic message.
C8_CredentialMessageIffAuth ==
  (Settled /\ loadingState = "ERROR") =>
    /\ error.def
    /\ error.s = S_InvalidKey <=> reply.cause = "auth"
    /\ reply.cause # "auth" => StartsWith(error.s, S_FailedToAnalyze)

\* C9: a cycle sends at most one request, exactly one when ingestion
\* succeeds, and after the request has failed none is sent until a new
\* file is selected.
C9_OneRequestPerCycle ==
  /\ [](/\ sent <= 1
        /\ call.pending => (sent = 1 /\ loadingState = "ANALYZING")
        /\ loadingState \in {"ANALYZING", "COMPLETED"} => sent = 1
        /\ transactions # <<>> => sent = 1
        /\ loadingState = "ANALYZING" => call.pending)
  /\ [][sent' # sent =>
          \/ sent = 0 /\ sent' = 1 /\ loadingState = "PARSING" /\ call'.pending
          \/ sent' = 0 /\ ~call'.pending]_vars
  /\ [][(Settled /\ loadingState = "ERROR") =>
          \/ sent' = sent /\ ~call'.pending /\ loadingState' = "ERROR"
          \/ loadingState' = "PARSING" /\ sent' = 0 /\ ~call'.pending]_vars

\* C9's case: the one request of a cycle has failed and nothing is pending.
C9_Witness ==
  /\ loadingState = "ERROR"
  /\ sent = 1
  /\ ~call.pending
  /\ reply.kind = "reject"

SpecTransitions ==
  {<<"IDLE", "PARSING">>, <<"PARSING", "ANALYZING">>,
   <<"ANALYZING", "COMPLETED">>, <<"ANALYZING", "ERROR">>,
   <<"COMPLETED", "IDLE">>, <<"ERROR", "IDLE">>}

\* C10 as stated: loadingState changes only from idle to parsing, parsing
\* to analyzing, analyzing to completed or error, and completed or error
\* to idle.
C10_OnlySpecTransitions ==
  [][loadingState' # loadingState =>
       <<loadingState, loadingState'>> \in SpecTransitions]_vars

\* C10 as amended: the same with two more transitions, error to parsing
\* (a file selected after a failure) and parsing to error (a failed parse).
C10_Transitions ==
  [][loadingState' # loadingState =>
       <<loadingState, loadingState'>> \in
         SpecTransitions \cup {<<"ERROR", "PARSING">>, <<"PARSING", "ERROR">>}]_vars

\* C10's case: the parse of the cycle's file has failed, so that the state
\* went from parsing to error, and FileUpload is shown again for the
\* selection that goes from error to parsing.
C10_Witness ==
  /\ loadingState = "ERROR"
  /\ Ingested
  /\ sent = 0
  /\ View.upload

\* C11: a file can be selected only in IDLE or ERROR, and then no cycle is
\* in flight (no file is being read, no call is awaited), so that two cycles
\* are never in flight together; while the selected file is being read the
\* transactions and the analysis held before are gone; and in COMPLETED the
\* analysis held is the parse of the reply to the cycle's one call, whose
\* request was built from the transactions held now.
C11_OneCycleAtATime ==
  /\ (ENABLED HandleFileSelect) =>
       /\ loadingState \in {"IDLE", "ERROR"}
       /\ papa = "idle"
       /\ ~call.pending
  /\ ~(papa = "reading" /\ call.pending)
  /\ papa = "reading" =>
       /\ loadingState = "PARSING"
       /\ transactions = <<>>
       /\ analysis = JNull
  /\ loadingState = "COMPLETED" =>
       /\ ~call.pending
       /\ transactions # <<>>
       /\ call.contents = SampleData(transactions)
       /\ reply.kind = "resolve"
       /\ Truthy(reply.text)
       /\ analysis = JSONparse(cleanJsonString(reply.text.s)).val

\* C11's case: a cycle has completed on a file whose records the sort has
\* put in another order, the request was built from them in that order, and
\* a finding of the reply is held.
C11_Witness ==
  /\ loadingState = "COMPLETED"
  /\ Len(transactions) = 2
  /\ transactions[1].id > transactions[2].id
  /\ call.contents = SampleData(transactions)
  /\ call.contents[1].id = transactions[1].id
  /\ Get(analysis, K_anomalies).t = "arr"
  /\ Len(Get(analysis, K_anomalies).e) > 0

\* C12: in every COMPLETED state that shows the results, the 'Issues Found'
\* count above the table equals the number of rows the table shows, which
\* are the findings that match a held transaction.
C12_IssuesCountIsRowsShown ==
  (loadingState = "COMPLETED" /\ View.results) =>
    View.issues = Len(View.rows)

====
